---- MODULE Spec2Model ----
(***************************************************************************)
(* Model of processManhwa (src/src/core.ts): adaptive slicing of a tall    *)
(* image followed by per-slice extraction with credential failover, and    *)
(* the final formatting pass; and of its host (src/src/bot.ts): the        *)
(* startup check of the configuration and the handler of the /ocr command. *)
(*                                                                         *)
(* JS strings are sequences of chunks; a chunk is either a whitespace      *)
(* chunk (" " or "\n") or a run of non-whitespace characters.              *)
(* The scores of the energy scan are IEEE 754 doubles, as in the code:     *)
(* every division, product and sum is rounded to the nearest double, ties  *)
(* to even.                                                                *)
(***************************************************************************)
EXTENDS Integers, Sequences, FiniteSets, TLC

VARIABLES
  pc,         \* position in processManhwa (core.ts:57-126)
  image,      \* the loaded image, an input (core.ts:59-62)
  apiKeys,    \* the credential pool, an input (core.ts:57)
  currentY,   \* core.ts:65
  slices,     \* core.ts:64, each slice kept as its {startY, height}
  i,          \* core.ts:80, counted from 0 as in the code
  attempts,   \* core.ts:82
  success,    \* core.ts:81
  allBlocks,  \* core.ts:78
  output,     \* the returned string (core.ts:121-125)
  calls,      \* history: the calls of generateContent, in order (core.ts:93)
  origin,     \* history: for each element of allBlocks, the call that
              \* pushed it and its position in that push (core.ts:106)
  failed,     \* history: the slices reported by console.error (core.ts:117)
  scans,      \* history: the windows read by ctx.getImageData (core.ts:34)
  env,        \* process.env: DISCORD_TOKEN, CLIENT_ID, GEMINI_API_KEYS
              \* (bot.ts:7-10)
  GEMINI_KEYS, \* bot.ts:11
  botpc,      \* the process of bot.ts (bot.ts:7-64): "start", "exited"
              \* (process.exit at bot.ts:16), "login" (module loaded, the
              \* promise of client.login pending), "ready" (that promise
              \* resolved), "terminating" (a promise has rejected and nothing
              \* handles it; the jobs already queued still run), "terminated"
  hpc,        \* position of the executing handler of 'interactionCreate'
              \* (bot.ts:39-62)
  interaction, \* the interaction of that handler (bot.ts:39)
  replies,    \* history: the calls of reply, deferReply and editReply made
              \* on that interaction (bot.ts:44, 48, 52, 55, 59)
  cur,        \* the invocation of processManhwa that is executing
  other       \* what is suspended at an await besides the executing code:
              \* the locals of a second invocation of processManhwa
              \* (core.ts:59, 93), or a second handler with its run
              \* (bot.ts:44, 48, 51, 52, 55, 59)

hostVars == <<env, GEMINI_KEYS, botpc, hpc, interaction, replies, cur, other>>

vars == <<pc, image, apiKeys, currentY, slices, i, attempts, success,
          allBlocks, output, calls, origin, failed, scans,
          env, GEMINI_KEYS, botpc, hpc, interaction, replies, cur, other>>

\* ---------------------------------------------------------------- bounds
MaxH == 7000
MaxKeys == 2
MaxTextLen == 3
MaxEnvLen == 2

\* ------------------------------------------------------ program constants
MAX_SLICE == 3000
MIN_SLICE == 1500
RowStride == 4
PixelStride == 10

\* ------------------------------------------------------------- the image
White == <<255, 255, 255>>
Black == <<0, 0, 0>>
Grey  == <<128, 128, 128>>
Red   == <<255, 0, 0>>
Pale  == <<200, 220, 240>>
Ivory == <<255, 255, 235>>
Cream == <<255, 255, 251>>

\* An image: rows y with y % period < band are "band" rows; in a band row
\* the columns x < inkW have colour ink, every other pixel has colour bg.
Pixel(img, x, y) ==
  IF (y % img.period) < img.band /\ x < img.inkW THEN img.ink ELSE img.bg

Kinds ==
  { [width |-> 10, bg |-> White, ink |-> White, period |-> 1000, band |-> 0,  inkW |-> 0],
    [width |-> 10, bg |-> Grey,  ink |-> White, period |-> 1500, band |-> 8,  inkW |-> 10],
    [width |-> 10, bg |-> Grey,  ink |-> Black, period |-> 1100, band |-> 8,  inkW |-> 10],
    [width |-> 25, bg |-> Pale,  ink |-> Red,   period |-> 700,  band |-> 600, inkW |-> 15],
    [width |-> 25, bg |-> Red,   ink |-> Pale,  period |-> 1900, band |-> 40, inkW |-> 25],
    [width |-> 7,  bg |-> Black, ink |-> Grey,  period |-> 2000, band |-> 1700, inkW |-> 7],
    [width |-> 10, bg |-> Ivory, ink |-> White, period |-> 3000, band |-> 2897, inkW |-> 10],
    [width |-> 10, bg |-> Cream, ink |-> White, period |-> 3000, band |-> 2977, inkW |-> 10] }

MkImage(k, h) ==
  [width |-> k.width, height |-> h, bg |-> k.bg, ink |-> k.ink,
   period |-> k.period, band |-> k.band, inkW |-> k.inkW]

\* the heights on and next to the multiples of a third of MIN_SLICE
HStep == MIN_SLICE \div 3

Heights == {h \in 1..MaxH : h % HStep \in {0, 1, HStep - 1}}

SegImages == {MkImage(k, h) : k \in Kinds, h \in Heights}

\* ------------------------------------------------ IEEE 754 double numbers
\* Natural numbers of any size: sequences of limbs in base LimbBase, the
\* least significant first, without leading zero limbs (zero is <<>>).
LimbBits == 15
LimbBase == 2^LimbBits

RECURSIVE FromInt(_)
FromInt(n) == IF n = 0 THEN <<>> ELSE <<n % LimbBase>> \o FromInt(n \div LimbBase)

RECURSIVE Norm(_)
Norm(a) ==
  IF a # <<>> /\ a[Len(a)] = 0 THEN Norm(SubSeq(a, 1, Len(a) - 1)) ELSE a

\* a * m + carry, for m < LimbBase
RECURSIVE MulSmall(_, _, _)
MulSmall(a, m, carry) ==
  IF a = <<>> THEN FromInt(carry)
  ELSE LET v == Head(a) * m + carry
       IN <<v % LimbBase>> \o MulSmall(Tail(a), m, v \div LimbBase)

RECURSIVE AddBig(_, _, _)
AddBig(a, b, carry) ==
  IF a = <<>> /\ b = <<>> THEN FromInt(carry)
  ELSE LET x == IF a = <<>> THEN 0 ELSE Head(a)
           y == IF b = <<>> THEN 0 ELSE Head(b)
           v == x + y + carry
       IN <<v % LimbBase>> \o
          AddBig(IF a = <<>> THEN a ELSE Tail(a),
                 IF b = <<>> THEN b ELSE Tail(b), v \div LimbBase)

\* a - b - borrow by limbs, for a >= b + borrow; the result may have
\* leading zero limbs
RECURSIVE SubLimbs(_, _, _)
SubLimbs(a, b, borrow) ==
  IF a = <<>> THEN <<>>
  ELSE LET y == IF b = <<>> THEN 0 ELSE Head(b)
           v == Head(a) - y - borrow
       IN <<v % LimbBase>> \o
          SubLimbs(Tail(a), IF b = <<>> THEN b ELSE Tail(b),
                   IF v < 0 THEN 1 ELSE 0)

SubBig(a, b) == Norm(SubLimbs(a, b, 0))

\* -1, 0, 1 as a < b, a = b, a > b
RECURSIVE CmpFrom(_, _, _)
CmpFrom(a, b, n) ==
  IF n = 0 THEN 0
  ELSE IF a[n] < b[n] THEN -1
  ELSE IF a[n] > b[n] THEN 1
  ELSE CmpFrom(a, b, n - 1)

CmpBig(a, b) ==
  IF Len(a) < Len(b) THEN -1
  ELSE IF Len(a) > Len(b) THEN 1
  ELSE CmpFrom(a, b, Len(a))

RECURSIVE BitLenInt(_)
BitLenInt(n) == IF n = 0 THEN 0 ELSE 1 + BitLenInt(n \div 2)

BitLen(a) ==
  IF a = <<>> THEN 0 ELSE LimbBits * (Len(a) - 1) + BitLenInt(a[Len(a)])

\* a * 2^k
Shl(a, k) ==
  IF a = <<>> THEN a
  ELSE [n \in 1..(k \div LimbBits) |-> 0] \o MulSmall(a, 2^(k % LimbBits), 0)

\* the quotient and the remainder of a by d, for 0 < d < LimbBase; limbs
\* are taken from the most significant one, n is the next limb
RECURSIVE DivSmallFrom(_, _, _, _, _)
DivSmallFrom(a, d, n, q, r) ==
  IF n = 0 THEN [q |-> Norm(q), r |-> r]
  ELSE LET v == r * LimbBase + a[n]
       IN DivSmallFrom(a, d, n - 1, <<v \div d>> \o q, v % d)

DivSmall(a, d) == DivSmallFrom(a, d, Len(a), <<>>, 0)

\* floor(a / 2^k)
Shr(a, k) ==
  LET j == k \div LimbBits
  IN IF j >= Len(a) THEN <<>>
     ELSE DivSmall(SubSeq(a, j + 1, Len(a)), 2^(k % LimbBits)).q

\* a mod 2^k
LowBits(a, k) == SubBig(a, Shl(Shr(a, k), k))

IsOdd(a) == a # <<>> /\ a[1] % 2 = 1

\* the largest q <= qhat with q * d <= r, and the rest r - q * d
RECURSIVE DivFix(_, _, _)
DivFix(r, d, qhat) ==
  LET t == Norm(MulSmall(d, qhat, 0))
  IN IF CmpBig(t, r) > 0 THEN DivFix(r, d, qhat - 1)
     ELSE [q |-> qhat, r |-> SubBig(r, t)]

\* long division limb by limb, for d of several limbs whose top limb is at
\* least LimbBase / 2: st.q and st.r are the quotient and the remainder of
\* the limbs of a above limb st.j; the next limb of the quotient is
\* estimated from the two top limbs of the remainder
RECURSIVE DivLimbs(_, _, _)
DivLimbs(a, d, st) ==
  IF st.j = 0 THEN [q |-> Norm(st.q), r |-> st.r]
  ELSE LET r1   == Norm(<<a[st.j]>> \o st.r)
           n    == Len(d)
           rt   == (IF Len(r1) > n THEN r1[n + 1] * LimbBase ELSE 0)
                     + (IF Len(r1) >= n THEN r1[n] ELSE 0)
           q0   == rt \div d[n]
           f    == DivFix(r1, d, IF q0 >= LimbBase THEN LimbBase - 1 ELSE q0)
       IN DivLimbs(a, d, [j |-> st.j - 1, q |-> <<f.q>> \o st.q, r |-> f.r])

\* the quotient and the remainder of a by d, d # 0
DivBig(a, d) ==
  IF Len(d) = 1
    THEN LET s == DivSmall(a, d[1]) IN [q |-> s.q, r |-> FromInt(s.r)]
    ELSE LET sh == LimbBits - BitLenInt(d[Len(d)])
             f  == DivLimbs(Shl(a, sh), Shl(d, sh),
                            [j |-> Len(Shl(a, sh)), q |-> <<>>, r |-> <<>>])
         IN [q |-> f.q, r |-> Shr(f.r, sh)]

RECURSIVE MulBig(_, _)
MulBig(a, b) ==
  IF a = <<>> \/ b = <<>> THEN <<>>
  ELSE Norm(AddBig(Norm(MulSmall(a, Head(b), 0)),
                   <<0>> \o MulBig(a, Tail(b)), 0))

\* a = m * 2^t with m odd
RECURSIVE OddPart(_, _)
OddPart(a, t) ==
  IF a = <<>> THEN [m |-> a, t |-> t]
  ELSE IF a[1] = 0 THEN OddPart(Tail(a), t + LimbBits)
  ELSE IF a[1] % 2 = 0 THEN OddPart(Shr(a, 1), t + 1)
  ELSE [m |-> a, t |-> t]

\* A double d >= 0 is [m, x], of value m * 2^x, with m odd and below 2^53,
\* or m = 0 and x = 0 for zero.  The numbers of the scan are far from the
\* subnormal range, from overflow and from NaN.
DZero == [m |-> <<>>, x |-> 0]

\* the double m * 2^x, for m # 0 below 2^53 or m = 2^53
Canon(m, x) == LET o == OddPart(m, 0) IN [m |-> o.m, x |-> x + o.t]

\* q with its drop lowest bits rounded off, to nearest and ties to even;
\* sticky tells that the number to round is above q
RoundOff(q, drop, sticky) ==
  IF drop < LimbBits
    THEN LET d    == DivSmall(q, 2^drop)
             half == 2^(drop - 1)
             up   == d.r > half \/ (d.r = half /\ (sticky \/ IsOdd(d.q)))
         IN IF up THEN AddBig(d.q, <<>>, 1) ELSE d.q
    ELSE LET m0 == Shr(q, drop)
             c  == CmpBig(LowBits(q, drop), Shl(<<1>>, drop - 1))
             up == c > 0 \/ (c = 0 /\ (sticky \/ IsOdd(m0)))
         IN IF up THEN AddBig(m0, <<>>, 1) ELSE m0

\* the double nearest to (q + f) * 2^x, ties to even, where 0 <= f < 1 and
\* sticky tells f # 0; with sticky, q has at least 55 bits
RoundQ(q, sticky, x) ==
  LET bl == BitLen(q)
  IN IF q = <<>> THEN DZero
     ELSE IF bl <= 53 THEN Canon(q, x)
     ELSE Canon(RoundOff(q, bl - 53, sticky), x + (bl - 53))

\* the double nearest to (num / den) * 2^x
Round(num, den, x) ==
  IF num = <<>> THEN DZero
  ELSE IF den = <<1>> THEN RoundQ(num, FALSE, x)
  ELSE LET d0 == 55 + BitLen(den) - BitLen(num)
           s  == IF d0 > 0 THEN d0 ELSE 0
           d  == DivBig(Shl(num, s), den)
       IN RoundQ(d.q, d.r # <<>>, x - s)

\* the double of an integer n >= 0
DFromInt(n) == RoundQ(FromInt(n), FALSE, 0)

\* a / b in doubles, b # 0
DDiv(a, b) == Round(a.m, b.m, a.x - b.x)

\* a * b in doubles
DMul(a, b) ==
  IF Len(a.m) <= Len(b.m)
    THEN RoundQ(MulBig(b.m, a.m), FALSE, a.x + b.x)
    ELSE RoundQ(MulBig(a.m, b.m), FALSE, a.x + b.x)

\* a + b in doubles
DAdd(a, b) ==
  IF a.m = <<>> THEN b
  ELSE IF b.m = <<>> THEN a
  ELSE LET x == IF a.x < b.x THEN a.x ELSE b.x
       IN RoundQ(AddBig(Shl(a.m, a.x - x), Shl(b.m, b.x - x), 0), FALSE, x)

\* a < b in doubles
DLess(a, b) ==
  IF b.m = <<>> THEN FALSE
  ELSE IF a.m = <<>> THEN TRUE
  ELSE LET ea == BitLen(a.m) + a.x
           eb == BitLen(b.m) + b.x
           x  == IF a.x < b.x THEN a.x ELSE b.x
       IN IF ea # eb THEN ea < eb
          ELSE CmpBig(Shl(a.m, a.x - x), Shl(b.m, b.x - x)) < 0

\* the literals 10 and 0.2
DTen == DFromInt(10)
DFifth == Round(FromInt(2), FromInt(10), 0)

\* Number.MAX_VALUE = (2^53 - 1) * 2^971
MAX_VALUE == [m |-> SubBig(Shl(<<1>>, 53), <<1>>), x |-> 971]

Abs(n) == IF n < 0 THEN -n ELSE n
Min(a, b) == IF a < b THEN a ELSE b

\* ctx.getImageData(0, top, width, scanH).data[idx]
DataAt(img, top, idx) ==
  LET p  == idx \div 4
      ch == idx % 4
      x  == p % img.width
      y  == p \div img.width
  IN Pixel(img, x, top + y)[ch + 1]

RECURSIVE RowEnergy(_, _, _, _)
RowEnergy(img, top, y, x) ==
  IF x >= img.width THEN 0
  ELSE LET idx == (y * img.width + x) * 4
           r == DataAt(img, top, idx)
           g == DataAt(img, top, idx + 1)
           b == DataAt(img, top, idx + 2)
           distWhite == Abs(255 - r) + Abs(255 - g) + Abs(255 - b)
           distBlack == r + g + b
       IN Min(distWhite, distBlack) + RowEnergy(img, top, y, x + PixelStride)

\* the products n * 0.2 for the rows of a window of processManhwa, each
\* computed once
Penalties == [n \in 0..(MAX_SLICE - MIN_SLICE) |-> DMul(DFromInt(n), DFifth)]

\* n * 0.2 in doubles
Penalty(n) ==
  IF n \in DOMAIN Penalties THEN Penalties[n] ELSE DMul(DFromInt(n), DFifth)

\* penalty = (scanH - y) * 0.2 and
\* finalScore = rowEnergy / (width / 10) + penalty, in doubles
FinalScore(img, rowEnergy, scanH, y) ==
  LET penalty == Penalty(scanH - y)
  IN DAdd(DDiv(DFromInt(rowEnergy), DDiv(DFromInt(img.width), DTen)), penalty)

\* The for-loop over the scanned rows, top = currentY + startScan.  The loop
\* state is st = [y, bestY, minEnergy].  The iterations are run in order,
\* in runs of ScanChunk rows (ScanRows runs the iterations with y < yEnd,
\* ScanLoop chains the runs), which keeps the evaluation depth small.
ScanChunk == 10 * RowStride

\* ScanIter with bestY = y, the offset within the window, instead of
\* startScan + y
ScanIter_NoOffset(img, top, startScan, scanH, st) ==
  LET rowEnergy  == RowEnergy(img, top, st.y, 0)
      finalScore == FinalScore(img, rowEnergy, scanH, st.y)
  IN IF DLess(finalScore, st.minEnergy)
       THEN [y |-> st.y + RowStride, bestY |-> st.y, minEnergy |-> finalScore]
       ELSE [y |-> st.y + RowStride, bestY |-> st.bestY,
             minEnergy |-> st.minEnergy]

\* ScanIter that also takes a row whose score equals the best so far
ScanIter_LastOfTies(img, top, startScan, scanH, st) ==
  LET rowEnergy  == RowEnergy(img, top, st.y, 0)
      finalScore == FinalScore(img, rowEnergy, scanH, st.y)
  IN IF ~DLess(st.minEnergy, finalScore)
       THEN [y |-> st.y + RowStride, bestY |-> startScan + st.y,
             minEnergy |-> finalScore]
       ELSE [y |-> st.y + RowStride, bestY |-> st.bestY,
             minEnergy |-> st.minEnergy]

ScanIter(img, top, startScan, scanH, st) ==
  LET rowEnergy  == RowEnergy(img, top, st.y, 0)
      finalScore == FinalScore(img, rowEnergy, scanH, st.y)
  IN IF DLess(finalScore, st.minEnergy)
       THEN [y |-> st.y + RowStride, bestY |-> startScan + st.y,
             minEnergy |-> finalScore]
       ELSE [y |-> st.y + RowStride, bestY |-> st.bestY,
             minEnergy |-> st.minEnergy]

RECURSIVE ScanRows(_, _, _, _, _, _)
ScanRows(img, top, startScan, scanH, yEnd, st) ==
  IF st.y >= scanH \/ st.y >= yEnd THEN st
  ELSE ScanRows(img, top, startScan, scanH, yEnd,
                ScanIter(img, top, startScan, scanH, st))

RECURSIVE ScanLoop(_, _, _, _, _)
ScanLoop(img, top, startScan, scanH, st) ==
  IF st.y >= scanH THEN st.bestY
  ELSE ScanLoop(img, top, startScan, scanH,
                ScanRows(img, top, startScan, scanH, st.y + ScanChunk, st))

\* GetImageData that reads the window also when no more than maxH remains
GetImageData_Always(img, curY, maxH, minH) ==
  <<[y |-> curY + minH, h |-> maxH - minH]>>

\* the windows findBestCutPosition reads with ctx.getImageData: none when
\* it returns the remainder, else the rows [currentY + startScan, + scanH)
GetImageData(img, curY, maxH, minH) ==
  LET remaining == img.height - curY
  IN IF remaining <= maxH THEN <<>>
     ELSE <<[y |-> curY + minH, h |-> maxH - minH]>>

\* findBestCutPosition that always cuts at the end of the window, also when
\* less than maxH remains
findBestCutPosition_NoRemainder(img, curY, maxH, minH) == maxH

findBestCutPosition(img, curY, maxH, minH) ==
  LET remaining == img.height - curY
      startScan == minH
      endScan   == maxH
      scanH     == endScan - startScan
  IN IF remaining <= maxH THEN remaining
     ELSE ScanLoop(img, curY + startScan, startScan, scanH,
                   [y |-> 0, bestY |-> endScan, minEnergy |-> MAX_VALUE])

\* ------------------------------------------------------------ JS values
Undef  == [t |-> "undef", s |-> <<>>]
Null   == [t |-> "null",  s |-> <<>>]
Str(s) == [t |-> "str",   s |-> s]
Num(s) == [t |-> "num",   s |-> s]

\* JS truthiness of a primitive
Truthy(v) ==
  \/ v.t = "str" /\ v.s # <<>>
  \/ v.t = "num" /\ v.s # <<"0">>

\* a || d
OrElse(v, d) == IF Truthy(v) THEN v ELSE d

\* elements of a decoded array: objects with (possibly absent) fields text
\* and category, or non-objects (null, a number)
Obj(text, category) == [t |-> "obj", text |-> text, category |-> category]
NullElem == [t |-> "null", text |-> Undef, category |-> Undef]
NumElem  == [t |-> "num",  text |-> Undef, category |-> Undef]

\* decoded JSON values
Arr(elems) == [t |-> "arr", elems |-> elems]
NonArr(t)  == [t |-> t,     elems |-> <<>>]

\* response text: a sequence of tokens
Tok(k, val) == [k |-> k, val |-> val]
FenceJson == Tok("fence_json", NonArr("none"))
Fence     == Tok("fence", NonArr("none"))
Ws        == Tok("ws", NonArr("none"))
Junk      == Tok("junk", NonArr("none"))
Json(val) == Tok("json", val)

\* ------------------------------------------------------- text formatting
SPEECH     == <<"speech">>
THOUGHT    == <<"thought">>
BOX        == <<"box">>
NARRATION  == <<"narration">>
SMALL_TEXT == <<"small_text">>
SFX        == <<"SFX">>
SYSTEM     == <<"system">>
SCREAM     == <<"scream">>
LINKED     == <<"linked">>

IsWs(c) == c \in {" ", "\n", "\t"}

RECURSIVE TrimStart(_)
TrimStart(s) ==
  IF s # <<>> /\ IsWs(Head(s)) THEN TrimStart(Tail(s)) ELSE s

RECURSIVE TrimEnd(_)
TrimEnd(s) ==
  IF s # <<>> /\ IsWs(s[Len(s)]) THEN TrimEnd(SubSeq(s, 1, Len(s) - 1)) ELSE s

\* String.prototype.trim
Trim(s) == TrimEnd(TrimStart(s))

\* formatText whose default case is the speech line
formatText_DefaultSpeech(text, category) ==
  LET t == Trim(text)
      c == IF category.t = "str" THEN category.s ELSE <<"?">>
  IN CASE category.t = "str" /\ c = THOUGHT    -> <<"():", " ">> \o t
       [] category.t = "str" /\ c = BOX        -> <<"[]:", " ">> \o t
       [] category.t = "str" /\ c = NARRATION  -> <<"OT:", " ">> \o t
       [] category.t = "str" /\ c = SMALL_TEXT -> <<"ST:", " ">> \o t
       [] category.t = "str" /\ c = SYSTEM     -> <<"{}:", " ">> \o t
       [] category.t = "str" /\ c = SCREAM     -> <<"::", " ">> \o t
       [] category.t = "str" /\ c = LINKED     -> <<"//:", " ">> \o t
       [] category.t = "str" /\ c = SFX        -> <<"SFX:", " ">> \o t
       [] OTHER -> <<"<ldquo><rdquo>:", " ">> \o t

\* formatText(text, category) for a string text; category is any JS value
formatText(text, category) ==
  LET t == Trim(text)
      c == IF category.t = "str" THEN category.s ELSE <<"?">>
  IN CASE category.t = "str" /\ c = SPEECH     -> <<"<ldquo><rdquo>:", " ">> \o t
       [] category.t = "str" /\ c = THOUGHT    -> <<"():", " ">> \o t
       [] category.t = "str" /\ c = BOX        -> <<"[]:", " ">> \o t
       [] category.t = "str" /\ c = NARRATION  -> <<"OT:", " ">> \o t
       [] category.t = "str" /\ c = SMALL_TEXT -> <<"ST:", " ">> \o t
       [] category.t = "str" /\ c = SYSTEM     -> <<"{}:", " ">> \o t
       [] category.t = "str" /\ c = SCREAM     -> <<"::", " ">> \o t
       [] category.t = "str" /\ c = LINKED     -> <<"//:", " ">> \o t
       [] category.t = "str" /\ c = SFX        -> <<"SFX:", " ">> \o t
       [] OTHER -> t

\* one record of allBlocks throws in the formatting pass: b.text on null,
\* or text.trim on a value that is not a string
LineThrows(b) ==
  \/ b.t = "null"
  \/ OrElse(b.text, Str(<<>>)).t # "str"

\* formatText(b.text || "", b.category || SPEECH) + "\n"
FormatLine(b) ==
  formatText(OrElse(b.text, Str(<<>>)).s, OrElse(b.category, Str(SPEECH))) \o <<"\n">>

\* FormatAll that puts each line before the lines written so far
RECURSIVE FormatAll_Prepend(_, _)
FormatAll_Prepend(blocks, out) ==
  IF blocks = <<>> THEN out
  ELSE FormatAll_Prepend(Tail(blocks), FormatLine(Head(blocks)) \o out)

\* allBlocks.forEach(b => output += ...), started from out
RECURSIVE FormatAll(_, _)
FormatAll(blocks, out) ==
  IF blocks = <<>> THEN out
  ELSE FormatAll(Tail(blocks), out \o FormatLine(Head(blocks)))

FormatThrows(blocks) == \E n \in 1..Len(blocks) : LineThrows(blocks[n])

\* ------------------------------------------------- decoding a response
IsFence(tk) == tk.k \in {"fence_json", "fence"}
NotFence(tk) == ~IsFence(tk)
NotWs(tk) == tk.k # "ws"

\* txt.replace(/```json|```/g, '')
StripFences(txt) == SelectSeq(txt, NotFence)

RECURSIVE TrimToksStart(_)
TrimToksStart(txt) ==
  IF txt # <<>> /\ Head(txt).k = "ws" THEN TrimToksStart(Tail(txt)) ELSE txt

RECURSIVE TrimToksEnd(_)
TrimToksEnd(txt) ==
  IF txt # <<>> /\ txt[Len(txt)].k = "ws"
    THEN TrimToksEnd(SubSeq(txt, 1, Len(txt) - 1)) ELSE txt

TrimToks(txt) == TrimToksEnd(TrimToksStart(txt))

\* JSON.parse: exactly one JSON value, whitespace around it allowed
ParseThrows(jsonStr) ==
  LET body == SelectSeq(jsonStr, NotWs)
  IN ~(Len(body) = 1 /\ body[1].k = "json")

ParseValue(jsonStr) == SelectSeq(jsonStr, NotWs)[1].val

\* the responses of the extraction service
Error      == [kind |-> "error",  txt |-> <<>>]
NoText     == [kind |-> "notext", txt |-> <<>>]
Text(toks) == [kind |-> "text",   txt |-> toks]

\* response.text ? response.text() : "[]"
ResponseTxt(resp) ==
  IF resp.kind = "text" THEN resp.txt ELSE <<Json(Arr(<<>>))>>

\* TryBody that pushes the elements of a decoded list and then rejects the
\* list when it holds a null element
TryBody_PushThenValidate(resp, blocks) ==
  IF resp.kind = "error" THEN [threw |-> TRUE, allBlocks |-> blocks]
  ELSE LET txt     == ResponseTxt(resp)
           jsonStr == TrimToks(StripFences(txt))
       IN IF ParseThrows(jsonStr) THEN [threw |-> TRUE, allBlocks |-> blocks]
          ELSE LET parsed == ParseValue(jsonStr)
               IN [threw |-> \E n \in 1..Len(parsed.elems) : parsed.elems[n].t = "null",
                   allBlocks |-> IF parsed.t = "arr" THEN blocks \o parsed.elems
                                 ELSE blocks]

\* TryBody that throws when the decoded value is not a list
TryBody_NonListThrows(resp, blocks) ==
  IF resp.kind = "error" THEN [threw |-> TRUE, allBlocks |-> blocks]
  ELSE LET txt     == ResponseTxt(resp)
           jsonStr == TrimToks(StripFences(txt))
       IN IF ParseThrows(jsonStr) THEN [threw |-> TRUE, allBlocks |-> blocks]
          ELSE LET parsed == ParseValue(jsonStr)
               IN IF parsed.t = "arr"
                    THEN [threw |-> FALSE, allBlocks |-> blocks \o parsed.elems]
                    ELSE [threw |-> TRUE, allBlocks |-> blocks]

\* TryBody that takes a text that does not decode for an empty list
TryBody_UndecodableIsEmpty(resp, blocks) ==
  IF resp.kind = "error" THEN [threw |-> TRUE, allBlocks |-> blocks]
  ELSE LET txt     == ResponseTxt(resp)
           jsonStr == TrimToks(StripFences(txt))
       IN IF ParseThrows(jsonStr) THEN [threw |-> FALSE, allBlocks |-> blocks]
          ELSE LET parsed == ParseValue(jsonStr)
               IN [threw |-> FALSE,
                   allBlocks |-> IF parsed.t = "arr" THEN blocks \o parsed.elems
                                 ELSE blocks]

\* the try block of one attempt, started with allBlocks = blocks
TryBody(resp, blocks) ==
  IF resp.kind = "error" THEN [threw |-> TRUE, allBlocks |-> blocks]
  ELSE LET txt     == ResponseTxt(resp)
           jsonStr == TrimToks(StripFences(txt))
       IN IF ParseThrows(jsonStr) THEN [threw |-> TRUE, allBlocks |-> blocks]
          ELSE LET parsed == ParseValue(jsonStr)
               IN [threw |-> FALSE,
                   allBlocks |-> IF parsed.t = "arr" THEN blocks \o parsed.elems
                                 ELSE blocks]

\* KeyIndex without the offset by the slice index
KeyIndex_NoOffset(slice, att, K) == att % K

\* (i + attempts) % apiKeys.length
KeyIndex(slice, att, K) == (slice + att) % K

\* LoopGuard that allows one attempt too many
LoopGuard_OffByOne(succ, att, K) == ~succ /\ att <= K

\* LoopGuard that gives up with one credential left
LoopGuard_GivesUpEarly(succ, att, K) == ~succ /\ att < K - 1

\* while (!success && attempts < apiKeys.length)
LoopGuard(succ, att, K) == ~succ /\ att < K

\* ----------------------------------------------------------- the inputs
RecA == Obj(Str(<<" ", "a">>), Str(SPEECH))
RecB == Obj(Str(<<"b", " ">>), Str(SFX))
RecC == Obj(Str(<<"c">>), Undef)

RGarbage == Text(<<Junk>>)
RObject  == Text(<<Json(NonArr("obj"))>>)
ROne     == Text(<<FenceJson, Ws, Json(Arr(<<RecA>>)), Ws, Fence>>)
RTwo     == Text(<<Json(Arr(<<RecB, RecC>>))>>)
RNullEl  == Text(<<Json(Arr(<<NullElem>>))>>)
RBadText == Text(<<Ws, Json(Arr(<<Obj(Num(<<"5">>), Str(SPEECH))>>))>>)

Responses == {Error, RGarbage, NoText, RObject, ROne, RTwo, RNullEl, RBadText}

KeyPool(K) == [j \in 1..K |-> 100 + j]

RunImages ==
  { MkImage(k, h) : k \in {kk \in Kinds : kk.width = 10 /\ kk.ink = White},
                    h \in {1200, 5000} }

\* ------------------------------------------------------------ the run
\* processManhwa taken alone: no host, one invocation
NoHost ==
  /\ env = [TOKEN |-> Undef, CLIENT_ID |-> Undef, GEMINI_API_KEYS |-> Undef]
  /\ GEMINI_KEYS = <<>>
  /\ botpc = "none"
  /\ hpc = "none"
  /\ interaction = Null
  /\ replies = <<>>

OneRun ==
  /\ cur = 1
  /\ other = Null

Init ==
  /\ pc = "load"
  /\ image \in RunImages
  /\ apiKeys \in {KeyPool(K) : K \in 1..MaxKeys}
  /\ currentY = 0
  /\ slices = <<>>
  /\ i = 0
  /\ attempts = 0
  /\ success = FALSE
  /\ allBlocks = <<>>
  /\ output = <<>>
  /\ calls = <<>>
  /\ origin = <<>>
  /\ failed = {}
  /\ scans = <<>>
  /\ NoHost
  /\ OneRun

InitSeg ==
  /\ pc = "load"
  /\ image \in SegImages
  /\ apiKeys = KeyPool(1)
  /\ currentY = 0
  /\ slices = <<>>
  /\ i = 0
  /\ attempts = 0
  /\ success = FALSE
  /\ allBlocks = <<>>
  /\ output = <<>>
  /\ calls = <<>>
  /\ origin = <<>>
  /\ failed = {}
  /\ scans = <<>>
  /\ NoHost
  /\ OneRun

\* await loadImage(imageUrl): resolves, or rejects to the caller
LoadImage ==
  /\ pc = "load"
  /\ \/ pc' = "slice"
     \/ pc' = "thrown"
  /\ UNCHANGED <<image, apiKeys, currentY, slices, i, attempts, success,
                 allBlocks, output, calls, origin, failed, scans>>
  /\ UNCHANGED hostVars

\* one iteration of while (currentY < image.height)
SliceStep ==
  /\ pc = "slice"
  /\ currentY < image.height
  /\ \E sliceH \in {findBestCutPosition(image, currentY, MAX_SLICE, MIN_SLICE)} :
       /\ slices' = Append(slices, [startY |-> currentY, height |-> sliceH])
       /\ currentY' = currentY + sliceH
  /\ scans' = scans \o GetImageData(image, currentY, MAX_SLICE, MIN_SLICE)
  /\ UNCHANGED <<pc, image, apiKeys, i, attempts, success, allBlocks, output,
                 calls, origin, failed>>
  /\ UNCHANGED hostVars

\* exit of the slicing loop; allBlocks = [], i = 0
SliceExit ==
  /\ pc = "slice"
  /\ ~(currentY < image.height)
  /\ pc' = "for"
  /\ allBlocks' = <<>>
  /\ i' = 0
  /\ UNCHANGED <<image, apiKeys, currentY, slices, attempts, success, output,
                 calls, origin, failed, scans>>
  /\ UNCHANGED hostVars

\* entry of the body of for (i < slices.length): success = false, attempts = 0
ForEnter ==
  /\ pc = "for"
  /\ i < Len(slices)
  /\ success' = FALSE
  /\ attempts' = 0
  /\ pc' = "while"
  /\ UNCHANGED <<image, apiKeys, currentY, slices, i, allBlocks, output,
                 calls, origin, failed, scans>>
  /\ UNCHANGED hostVars

\* exit of the for loop
ForExit ==
  /\ pc = "for"
  /\ ~(i < Len(slices))
  /\ pc' = "format"
  /\ UNCHANGED <<image, apiKeys, currentY, slices, i, attempts, success,
                 allBlocks, output, calls, origin, failed, scans>>
  /\ UNCHANGED hostVars

\* one iteration of the failover loop: one call of generateContent
AttemptWith(R) ==
  /\ pc = "while"
  /\ LoopGuard(success, attempts, Len(apiKeys))
  /\ \E resp \in R :
       LET keyIndex   == KeyIndex(i, attempts, Len(apiKeys))
           currentKey == apiKeys[keyIndex + 1]
           r          == TryBody(resp, allBlocks)
       IN /\ calls' = Append(calls, [slice |-> i, keyIndex |-> keyIndex,
                                      key |-> currentKey, resp |-> resp])
          /\ allBlocks' = r.allBlocks
          /\ origin' = origin \o
               [p \in 1..(Len(r.allBlocks) - Len(allBlocks)) |->
                  [slice |-> i, call |-> Len(calls) + 1, pos |-> p]]
          /\ IF r.threw
               THEN attempts' = attempts + 1 /\ success' = success
               ELSE success' = TRUE /\ attempts' = attempts
  /\ UNCHANGED <<pc, image, apiKeys, currentY, slices, i, output, failed, scans>>
  /\ UNCHANGED hostVars

Attempt == AttemptWith(Responses)

\* exit of the failover loop, if (!success) console.error(...), i++
WhileExit ==
  /\ pc = "while"
  /\ ~LoopGuard(success, attempts, Len(apiKeys))
  /\ failed' = IF ~success THEN failed \cup {i} ELSE failed
  /\ i' = i + 1
  /\ pc' = "for"
  /\ UNCHANGED <<image, apiKeys, currentY, slices, attempts, success,
                 allBlocks, output, calls, origin, scans>>
  /\ UNCHANGED hostVars

\* the formatting pass and the return
Format ==
  /\ pc = "format"
  /\ IF FormatThrows(allBlocks)
       THEN pc' = "thrown" /\ output' = output
       ELSE pc' = "done" /\ output' = FormatAll(allBlocks, <<>>)
  /\ UNCHANGED <<image, apiKeys, currentY, slices, i, attempts, success,
                 allBlocks, calls, origin, failed, scans>>
  /\ UNCHANGED hostVars

Next ==
  \/ LoadImage
  \/ SliceStep
  \/ SliceExit
  \/ ForEnter
  \/ ForExit
  \/ Attempt
  \/ WhileExit
  \/ Format

NextSeg ==
  \/ LoadImage
  \/ SliceStep
  \/ SliceExit

Spec == Init /\ [][Next]_vars

\* ---- the formatting pass alone, on one record
\* the category names of the instruction prompt (core.ts:97)
PromptCategories ==
  { <<"speech">>, <<"thought">>, <<"box">>, <<"narration">>, <<"small_text">>,
    <<"sfx">>, <<"system">>, <<"scream">>, <<"linked">> }

EnumCategories ==
  {SPEECH, THOUGHT, BOX, NARRATION, SMALL_TEXT, SFX, SYSTEM, SCREAM, LINKED}

FormatTexts ==
  {Undef} \cup
  {Str(t) : t \in UNION {[1..n -> {" ", "a", "b"}] : n \in 0..MaxTextLen}}

FormatCategories ==
  {Str(c) : c \in PromptCategories \cup EnumCategories \cup {<<"shout">>, <<>>}}
    \cup {Undef, Null, Num(<<"0">>), Num(<<"5">>)}

InitFormat ==
  /\ pc = "format"
  /\ image \in {im \in RunImages : im.height = 1200 /\ im.bg = White}
  /\ apiKeys = KeyPool(1)
  /\ currentY = 0
  /\ slices = <<>>
  /\ i = 0
  /\ attempts = 0
  /\ success = FALSE
  /\ allBlocks \in {<<Obj(t, c)>> : t \in FormatTexts, c \in FormatCategories}
  /\ output = <<>>
  /\ calls = <<>>
  /\ origin = <<>>
  /\ failed = {}
  /\ scans = <<>>
  /\ NoHost
  /\ OneRun

NextFormat == Format

SpecFormat == InitFormat /\ [][NextFormat]_vars

SpecSeg == InitSeg /\ [][NextSeg]_vars

\* ---- what an invocation of processManhwa keeps across an await
\* the locals of the executing invocation
Locals ==
  [pc |-> pc, image |-> image, currentY |-> currentY, slices |-> slices,
   i |-> i, attempts |-> attempts, success |-> success,
   allBlocks |-> allBlocks, output |-> output, calls |-> calls,
   origin |-> origin, failed |-> failed, scans |-> scans]

\* the locals of an invocation that has run up to await loadImage(imageUrl)
FreshLocals(img) ==
  [pc |-> "load", image |-> img, currentY |-> 0, slices |-> <<>>,
   i |-> 0, attempts |-> 0, success |-> FALSE,
   allBlocks |-> <<>>, output |-> <<>>, calls |-> <<>>,
   origin |-> <<>>, failed |-> {}, scans |-> <<>>]

\* an invocation is suspended at an await: loadImage, or generateContent
AtAwait(p, succ, att) ==
  \/ p = "load"
  \/ p = "while" /\ LoopGuard(succ, att, Len(apiKeys))

Ended(p) == p \in {"done", "thrown"}

\* ---- the host (bot.ts): startup and the handler of the /ocr command
\* String.prototype.split(','), parts being the parts read so far
RECURSIVE SplitComma(_, _)
SplitComma(str, parts) ==
  IF str = <<>> THEN parts
  ELSE IF Head(str) = ","
    THEN SplitComma(Tail(str), Append(parts, <<>>))
    ELSE SplitComma(Tail(str),
                    [parts EXCEPT ![Len(parts)] = Append(@, Head(str))])

\* .map(k => k.trim())
MapTrim(parts) == [n \in 1..Len(parts) |-> Trim(parts[n])]

\* k => k.length > 0
NonEmptyKey(k) == Len(k) > 0

\* the key list without .filter(k => k.length > 0)
ParseKeys_NoFilter(KEYS_STRING) == MapTrim(SplitComma(KEYS_STRING, << <<>> >>))

\* KEYS_STRING.split(',').map(k => k.trim()).filter(k => k.length > 0)
ParseKeys(KEYS_STRING) ==
  SelectSeq(MapTrim(SplitComma(KEYS_STRING, << <<>> >>)), NonEmptyKey)

\* process.env.GEMINI_API_KEYS || ""
KeysString(e) == OrElse(e.GEMINI_API_KEYS, Str(<<>>)).s

\* !TOKEN || !CLIENT_ID || GEMINI_KEYS.length === 0
ConfigInvalid(e, keys) ==
  ~Truthy(e.TOKEN) \/ ~Truthy(e.CLIENT_ID) \/ Len(keys) = 0

EnvStrings == UNION {[1..n -> {",", " ", "k"}] : n \in 0..MaxEnvLen}

Environments ==
  {[TOKEN |-> t, CLIENT_ID |-> c, GEMINI_API_KEYS |-> k] :
     t \in {Undef, Str(<<"tok">>)}, c \in {Undef, Str(<<"id">>)},
     k \in {Undef} \cup {Str(x) : x \in EnvStrings}}

\* interaction.options.getAttachment('image') and its contentType
NoAttachment == [t |-> "null", contentType |-> Null]
Attachment(ct) == [t |-> "obj", contentType |-> ct]

Attachments ==
  {NoAttachment} \cup
  {Attachment(ct) : ct \in {Null, Str(<<"image/", "png">>),
                            Str(<<"text/", "plain">>),
                            Str(<<"x-", "image/">>)}}

\* a button press, another command, and /ocr with each attachment
Interactions ==
  {[chat |-> FALSE, commandName |-> "ocr", attachment |-> NoAttachment],
   [chat |-> TRUE, commandName |-> "ping", attachment |-> NoAttachment]}
    \cup {[chat |-> TRUE, commandName |-> "ocr", attachment |-> a] :
            a \in Attachments}

\* !attachment || !attachment.contentType?.startsWith('image/')
InvalidAttachment(a) ==
  \/ a.t = "null"
  \/ ~(/\ a.contentType.t = "str"
        /\ a.contentType.s # <<>>
        /\ Head(a.contentType.s) = "image/")

Reply(content, files) == [content |-> content, files |-> files]
InvalidFile      == Reply("Invalid file.", <<>>)
Deferred         == Reply("", <<>>)
NoTextFound      == Reply("No text found.", <<>>)
SystemError      == Reply("System Error.", <<>>)
AnalysisComplete(result) == Reply("Analysis Complete!", <<result>>)

\* the call of editReply made after await processManhwa(...): state is how
\* the call of processManhwa ended
FinalReply(state, result) ==
  IF state = "thrown" THEN SystemError
  ELSE IF Trim(result) = <<>> THEN NoTextFound
  ELSE AnalysisComplete(result)

\* a failed call, a list with text
BotResponses == {Error, ROne}

\* an image of two slices
BotImages == {im \in RunImages : im.bg = White /\ im.height = 5000}

\* the locals of processManhwa where it has not been called
IdleLocals ==
  [pc |-> "idle", image |-> Null, currentY |-> 0, slices |-> <<>>,
   i |-> 0, attempts |-> 0, success |-> FALSE,
   allBlocks |-> <<>>, output |-> <<>>, calls |-> <<>>,
   origin |-> <<>>, failed |-> {}, scans |-> <<>>]

\* the executing code continues with the locals r
Restore(r) ==
  /\ pc' = r.pc
  /\ image' = r.image
  /\ currentY' = r.currentY
  /\ slices' = r.slices
  /\ i' = r.i
  /\ attempts' = r.attempts
  /\ success' = r.success
  /\ allBlocks' = r.allBlocks
  /\ output' = r.output
  /\ calls' = r.calls
  /\ origin' = r.origin
  /\ failed' = r.failed
  /\ scans' = r.scans

\* the executing handler: its position, its interaction, the calls made on
\* it, and the locals of its call of processManhwa
Handler ==
  [hpc |-> hpc, interaction |-> interaction, replies |-> replies,
   run |-> Locals]

\* no handler, or one whose promise has settled
Free(h) == h \in {"idle", "returned", "rejected"}

\* a second handler is suspended at an await
OtherSuspended == IF other = Null THEN FALSE ELSE ~Free(other.hpc)

\* the executing handler waits at one of its awaits (bot.ts:44, 48, 52, 55,
\* 59), or at await processManhwa(...) (bot.ts:51): inside processManhwa at
\* one of the awaits of that function, or, processManhwa having returned or
\* thrown, with its continuation queued behind the jobs already queued
Suspended ==
  \/ hpc \in {"await_reply", "await_defer", "await_final", "await_error"}
  \/ hpc = "run" /\ (AtAwait(pc, success, attempts) \/ Ended(pc))

\* the process once the promise of a handler has settled as h, the process
\* being b before: nothing handles the rejection of the listener (no 'error'
\* listener, no handler of 'unhandledRejection'), so the process is to
\* terminate once the jobs already queued have run
AfterHandler(h, b) == IF h = "rejected" THEN "terminating" ELSE b

\* events are delivered to the listener: it stays registered until the
\* process has ended, so an event emitted by a job that runs after a
\* rejection still enters the handler
Listening == botpc \in {"login", "ready", "terminating"}

\* jobs of the event loop run
Running == botpc \in {"login", "ready", "terminating"}

InitBot ==
  /\ env \in Environments
  /\ GEMINI_KEYS = <<>>
  /\ botpc = "start"
  /\ hpc = "idle"
  /\ interaction = Null
  /\ replies = <<>>
  /\ OneRun
  /\ pc = "idle"
  /\ image = Null
  /\ apiKeys = <<>>
  /\ currentY = 0
  /\ slices = <<>>
  /\ i = 0
  /\ attempts = 0
  /\ success = FALSE
  /\ allBlocks = <<>>
  /\ output = <<>>
  /\ calls = <<>>
  /\ origin = <<>>
  /\ failed = {}
  /\ scans = <<>>

\* module load: the key list, then the check of the configuration, then
\* the registration of the commands (its failure is caught and logged,
\* bot.ts:29-34) and of the listeners, then the call of client.login(TOKEN)
Startup ==
  /\ botpc = "start"
  /\ GEMINI_KEYS' = ParseKeys(KeysString(env))
  /\ botpc' = IF ConfigInvalid(env, GEMINI_KEYS') THEN "exited" ELSE "login"
  /\ UNCHANGED <<pc, image, apiKeys, currentY, slices, i, attempts, success,
                 allBlocks, output, calls, origin, failed, scans>>
  /\ UNCHANGED <<env, hpc, interaction, replies, cur, other>>

\* an 'interactionCreate' event: the handler is entered whenever no code is
\* executing, whatever the state of an earlier handler, which stays
\* suspended where it is (a handler that has ended is kept no longer); the
\* new handler runs up to its first await or to its return
InteractionCreate ==
  /\ Listening
  /\ \/ Free(hpc) /\ other' = other
     \/ /\ Suspended
        /\ ~OtherSuspended
        /\ other' = Handler
  /\ \E x \in Interactions :
       /\ interaction' = x
       /\ IF ~x.chat \/ x.commandName # "ocr"
            THEN replies' = <<>> /\ hpc' = "returned"
          ELSE IF InvalidAttachment(x.attachment)
            THEN replies' = <<InvalidFile>> /\ hpc' = "await_reply"
            ELSE replies' = <<Deferred>> /\ hpc' = "await_defer"
  /\ Restore(IdleLocals)
  /\ UNCHANGED <<apiKeys, env, GEMINI_KEYS, botpc, cur>>

\* await interaction.reply(...) settles: the handler returns, or its promise
\* rejects
ReplySettled ==
  /\ Running
  /\ hpc = "await_reply"
  /\ hpc' \in {"returned", "rejected"}
  /\ botpc' = AfterHandler(hpc', botpc)
  /\ UNCHANGED <<pc, image, apiKeys, currentY, slices, i, attempts, success,
                 allBlocks, output, calls, origin, failed, scans>>
  /\ UNCHANGED <<env, GEMINI_KEYS, interaction, replies, cur, other>>

\* await interaction.deferReply() settles: the handler calls processManhwa,
\* which runs up to await loadImage(imageUrl); or, the await being outside
\* the try block, the promise of the handler rejects
DeferSettled ==
  /\ Running
  /\ hpc = "await_defer"
  /\ \/ /\ hpc' = "run"
        /\ pc' = "load"
        /\ image' \in BotImages
        /\ apiKeys' = GEMINI_KEYS
     \/ /\ hpc' = "rejected"
        /\ UNCHANGED <<pc, image, apiKeys>>
  /\ botpc' = AfterHandler(hpc', botpc)
  /\ UNCHANGED <<currentY, slices, i, attempts, success, allBlocks, output,
                 calls, origin, failed, scans>>
  /\ UNCHANGED <<env, GEMINI_KEYS, interaction, replies, cur, other>>

BotAttempt == AttemptWith(BotResponses)

\* the handler after await processManhwa(...) has settled: the call of
\* editReply of the try block, or of the catch block when the run threw
HandlerReply ==
  /\ Running
  /\ hpc = "run"
  /\ Ended(pc)
  /\ replies' = Append(replies, FinalReply(pc, output))
  /\ hpc' = IF pc = "thrown" THEN "await_error" ELSE "await_final"
  /\ UNCHANGED <<pc, image, apiKeys, currentY, slices, i, attempts, success,
                 allBlocks, output, calls, origin, failed, scans>>
  /\ UNCHANGED <<env, GEMINI_KEYS, botpc, interaction, cur, other>>

\* await interaction.editReply(...) of the try block settles: the handler
\* returns, or the catch block logs and calls editReply('System Error.')
FinalSettled ==
  /\ Running
  /\ hpc = "await_final"
  /\ \/ hpc' = "returned" /\ replies' = replies
     \/ hpc' = "await_error" /\ replies' = Append(replies, SystemError)
  /\ UNCHANGED <<pc, image, apiKeys, currentY, slices, i, attempts, success,
                 allBlocks, output, calls, origin, failed, scans>>
  /\ UNCHANGED <<env, GEMINI_KEYS, botpc, interaction, cur, other>>

\* await interaction.editReply('System Error.') of the catch block settles:
\* the handler returns, or its promise rejects
ErrorSettled ==
  /\ Running
  /\ hpc = "await_error"
  /\ hpc' \in {"returned", "rejected"}
  /\ botpc' = AfterHandler(hpc', botpc)
  /\ UNCHANGED <<pc, image, apiKeys, currentY, slices, i, attempts, success,
                 allBlocks, output, calls, origin, failed, scans>>
  /\ UNCHANGED <<env, GEMINI_KEYS, interaction, replies, cur, other>>

\* the executing handler waits or has ended, and the event loop resumes
\* the other one; a handler that has returned is kept no longer
BotSwitch ==
  /\ Running
  /\ Suspended \/ Free(hpc)
  /\ OtherSuspended
  /\ hpc' = other.hpc
  /\ interaction' = other.interaction
  /\ replies' = other.replies
  /\ Restore(other.run)
  /\ other' = IF hpc \in {"idle", "returned"} THEN Null ELSE Handler
  /\ UNCHANGED <<apiKeys, env, GEMINI_KEYS, botpc, cur>>

\* the promise of client.login(TOKEN) settles (bot.ts:64): it is neither
\* awaited nor caught, so when it rejects nothing handles the rejection
Login ==
  /\ botpc = "login"
  /\ botpc' \in {"ready", "terminating"}
  /\ UNCHANGED <<pc, image, apiKeys, currentY, slices, i, attempts, success,
                 allBlocks, output, calls, origin, failed, scans>>
  /\ UNCHANGED <<env, GEMINI_KEYS, hpc, interaction, replies, cur, other>>

\* the jobs queued have run: the process ends on the unhandled rejection
Terminate ==
  /\ botpc = "terminating"
  /\ botpc' = "terminated"
  /\ UNCHANGED <<pc, image, apiKeys, currentY, slices, i, attempts, success,
                 allBlocks, output, calls, origin, failed, scans>>
  /\ UNCHANGED <<env, GEMINI_KEYS, hpc, interaction, replies, cur, other>>

NextBot ==
  \/ Startup
  \/ Login
  \/ InteractionCreate
  \/ ReplySettled
  \/ DeferSettled
  \/ Running /\ LoadImage
  \/ Running /\ SliceStep
  \/ Running /\ SliceExit
  \/ Running /\ ForEnter
  \/ Running /\ ForExit
  \/ Running /\ BotAttempt
  \/ Running /\ WhileExit
  \/ Running /\ Format
  \/ HandlerReply
  \/ FinalSettled
  \/ ErrorSettled
  \/ BotSwitch
  \/ Terminate

SpecBot == InitBot /\ [][NextBot]_vars

\* ---- two invocations of processManhwa in flight on one event loop
\* locals resumed with the list of collected records of the invocation
\* that was executing, as if allBlocks were declared outside the function
Resume_SharedBlocks(saved, live) == [saved EXCEPT !.allBlocks = live.allBlocks]

\* the locals an invocation finds when it resumes: its own, every one of
\* them being declared inside processManhwa
Resume(saved, live) == saved

\* the responses of the service to each invocation
ConcResponses(run) ==
  IF run = 1 THEN {Error, ROne, RObject} ELSE {Error, RTwo, RGarbage}

ConcImages == {im \in RunImages : im.bg = White}

InitConc ==
  /\ pc = "load"
  /\ image \in ConcImages
  /\ apiKeys \in {KeyPool(n) : n \in 1..MaxKeys}
  /\ currentY = 0
  /\ slices = <<>>
  /\ i = 0
  /\ attempts = 0
  /\ success = FALSE
  /\ allBlocks = <<>>
  /\ output = <<>>
  /\ calls = <<>>
  /\ origin = <<>>
  /\ failed = {}
  /\ scans = <<>>
  /\ NoHost
  /\ cur = 1
  /\ other \in {FreshLocals(img) : img \in ConcImages}

\* the executing invocation is suspended at an await, or has returned, and
\* the event loop resumes the other one
Switch ==
  /\ AtAwait(pc, success, attempts) \/ Ended(pc)
  /\ ~Ended(other.pc)
  /\ LET r == Resume(other, Locals)
     IN /\ pc' = r.pc
        /\ image' = r.image
        /\ currentY' = r.currentY
        /\ slices' = r.slices
        /\ i' = r.i
        /\ attempts' = r.attempts
        /\ success' = r.success
        /\ allBlocks' = r.allBlocks
        /\ output' = r.output
        /\ calls' = r.calls
        /\ origin' = r.origin
        /\ failed' = r.failed
        /\ scans' = r.scans
  /\ other' = Locals
  /\ cur' = 3 - cur
  /\ UNCHANGED <<apiKeys, env, GEMINI_KEYS, botpc, hpc, interaction, replies>>

ConcAttempt == AttemptWith(ConcResponses(cur))

NextConc ==
  \/ Switch
  \/ LoadImage
  \/ SliceStep
  \/ SliceExit
  \/ ForEnter
  \/ ForExit
  \/ ConcAttempt
  \/ WhileExit
  \/ Format

SpecConc == InitConc /\ [][NextConc]_vars

\* ------------------------------------------------------------- claims
SliceEnd(n) == slices[n].startY + slices[n].height

\* C1: the slices of the slicing loop are contiguous from 0, none is higher
\* than MAX_SLICE, every slice but the last is at least MIN_SLICE high, the
\* loop position is the end of the last slice, and when the loop has ended
\* the slices cover [0, H) exactly.
C1_SlicesPartition ==
  /\ \A n \in 1..Len(slices) :
       /\ slices[n].startY = (IF n = 1 THEN 0 ELSE SliceEnd(n - 1))
       /\ slices[n].height <= MAX_SLICE
       /\ n < Len(slices) => slices[n].height >= MIN_SLICE
  /\ currentY = (IF slices = <<>> THEN 0 ELSE SliceEnd(Len(slices)))
  /\ pc = "for" => currentY = image.height

\* C1 witness: a finished slicing of three or more slices whose last slice
\* is lower than MIN_SLICE and whose first cut is inside the scan window.
C1_Witness ==
  /\ pc = "for"
  /\ Len(slices) >= 3
  /\ slices[Len(slices)].height < MIN_SLICE
  /\ slices[1].height > MIN_SLICE
  /\ slices[1].height < MAX_SLICE

\* C10 as claimed: an image of height 5000 is cut into exactly two slices,
\* {0, cutY} with 1500 <= cutY <= 3000 and {cutY, 5000 - cutY}.
C10_TwoSlicesAlways ==
  (pc = "for" /\ image.height = 5000) =>
    /\ Len(slices) = 2
    /\ slices[1].startY = 0
    /\ slices[1].height >= MIN_SLICE /\ slices[1].height <= MAX_SLICE
    /\ slices[2] = [startY |-> slices[1].height, height |-> 5000 - slices[1].height]

\* C10 amended: for height 5000 the first slice is {0, cutY} with
\* 1500 <= cutY <= 3000; if cutY >= 2000 there are exactly two slices, the
\* second being {cutY, 5000 - cutY}; if cutY < 2000 more than 3000 rows
\* remain, the window is scanned again and there are three slices
\* {0, cutY}, {cutY, c2} with 1500 <= c2 <= 3000, {cutY + c2, 5000 - cutY - c2}.
C10_TwoOrThreeSlices ==
  (pc = "for" /\ image.height = 5000) =>
    /\ Len(slices) >= 2
    /\ slices[1].startY = 0
    /\ slices[1].height >= MIN_SLICE /\ slices[1].height <= MAX_SLICE
    /\ slices[1].height >= 5000 - MAX_SLICE =>
         /\ Len(slices) = 2
         /\ slices[2] = [startY |-> slices[1].height,
                         height |-> 5000 - slices[1].height]
    /\ slices[1].height < 5000 - MAX_SLICE =>
         /\ Len(slices) = 3
         /\ slices[2].startY = slices[1].height
         /\ slices[2].height >= MIN_SLICE /\ slices[2].height <= MAX_SLICE
         /\ slices[3] = [startY |-> SliceEnd(2), height |-> 5000 - SliceEnd(2)]

\* C10 witness: an image of height 5000 that was cut into three slices.
C10_Witness ==
  pc = "for" /\ image.height = 5000 /\ Len(slices) = 3

\* ---- the history of calls
K == Len(apiKeys)
N == Len(slices)

\* the calls made for slice s
CallsOf(s) == {n \in 1..Len(calls) : calls[n].slice = s}

\* the attempt number of call n: the calls made before it for its slice
AttemptNo(n) == Cardinality({m \in 1..(n - 1) : calls[m].slice = calls[n].slice})

IsLastCallOfSlice(n) == \A m \in CallsOf(calls[n].slice) : m <= n

\* slice s is behind the loop position: its failover loop has ended
SliceEnded(s) == s < i \/ pc \in {"format", "done", "thrown"}

\* the JSON payload of a response as sent: the value of its only non-fence,
\* non-whitespace token
Payload(resp) ==
  LET body == {n \in 1..Len(resp.txt) : resp.txt[n].k \in {"json", "junk"}}
  IN IF resp.kind = "notext" THEN Arr(<<>>)
     ELSE IF resp.kind = "text" /\ Cardinality(body) = 1
               /\ \A n \in body : resp.txt[n].k = "json"
       THEN resp.txt[CHOOSE n \in body : TRUE].val
       ELSE NonArr("none")

\* the response is an error, or a text that does not decode
Undecodable(resp) == resp.kind = "text" /\ Payload(resp).t = "none"
NonList(resp) == resp.kind = "text" /\ Payload(resp).t \notin {"none", "arr"}
IsList(resp) == Payload(resp).t = "arr"

\* the elements of allBlocks pushed for slice s / by call n
BlocksOfSlice(s) == {p \in 1..Len(origin) : origin[p].slice = s}
BlocksOfCall(n) == {p \in 1..Len(origin) : origin[p].call = n}

\* C2 (safety part): no slice gets more than K calls, a run makes at most
\* N * K calls.
C2_Bounded ==
  /\ \A s \in 0..(N - 1) : Cardinality(CallsOf(s)) <= K
  /\ Len(calls) <= N * K
  /\ pc = "while" => attempts <= K

\* the steps the dispatch loops can still take, at most
Measure ==
  (N - i) * (K + 3) +
    (CASE pc = "for"   -> K + 2
       [] pc = "while" -> (K - attempts) + (IF success THEN 0 ELSE 1)
       [] OTHER        -> 0)

DispatchStepDecreases ==
  pc \in {"for", "while"} =>
    (Measure' < Measure /\ pc' \in {"for", "while", "format"})

\* C2: for every slice the failover loop makes at most K calls whatever the
\* service answers, and a run makes at most N * K calls; the dispatch loops
\* never block and every step of them decreases Measure, which is never
\* negative, so a run that has sliced its image reaches the formatting step.
C2_BoundedFailover ==
  /\ [](C2_Bounded /\ Measure >= 0)
  /\ [](pc \in {"for", "while"} => ENABLED Next)
  /\ [][DispatchStepDecreases]_vars

\* C2 witness: a run at the formatting step that made K >= 2 calls for each
\* of its three slices.
C2_Witness ==
  /\ pc = "format"
  /\ K >= 2 /\ N = 3
  /\ \A s \in 0..(N - 1) : Cardinality(CallsOf(s)) = K

\* C3: a slice contributes all or nothing: a failed slice added no record;
\* every record of allBlocks was pushed by the last call of its slice, that
\* call did not fail, and the records of a slice are the complete list of
\* that one response, in its order.
C3_AllOrNothing ==
  /\ Len(origin) = Len(allBlocks)
  /\ \A s \in failed : BlocksOfSlice(s) = {}
  /\ \A p \in 1..Len(origin) :
       LET n == origin[p].call
       IN /\ n \in CallsOf(origin[p].slice)
          /\ IsLastCallOfSlice(n)
          /\ origin[p].slice = i /\ pc = "while" => success
          /\ IsList(calls[n].resp)
          /\ Cardinality(BlocksOfCall(n)) = Len(Payload(calls[n].resp).elems)
          /\ origin[p].pos \in 1..Len(Payload(calls[n].resp).elems)
          /\ allBlocks[p] = Payload(calls[n].resp).elems[origin[p].pos]
  /\ \A p, q \in 1..Len(origin) :
       (origin[p].call = origin[q].call /\ origin[p].pos = origin[q].pos) => p = q

\* C3 witness: a finished dispatch with a failed slice and a slice that
\* succeeded with two records after a failed attempt.
C3_Witness ==
  /\ pc = "format"
  /\ failed # {}
  /\ \E s \in 0..(N - 1) :
       /\ Cardinality(BlocksOfSlice(s)) = 2
       /\ Cardinality(CallsOf(s)) = 2

\* C4: the call for attempt a of slice s uses the credential at index
\* (s + a) mod K, whatever calls were made before it.
C4_KeyRotation ==
  \A n \in 1..Len(calls) :
    /\ calls[n].keyIndex = (calls[n].slice + AttemptNo(n)) % K
    /\ calls[n].key = apiKeys[((calls[n].slice + AttemptNo(n)) % K) + 1]

\* C4 witness: over two credentials, slice 0 took two attempts, slice 1
\* then started at index 1 and its second attempt used index 0.
C4_Witness ==
  /\ K = 2
  /\ Cardinality(CallsOf(0)) = 2
  /\ \E n, m \in CallsOf(1) :
       /\ AttemptNo(n) = 0 /\ calls[n].keyIndex = 1
       /\ AttemptNo(m) = 1 /\ calls[m].keyIndex = 0

\* the lines of the output: the chunks before each "\n"
RECURSIVE SplitLines(_, _)
SplitLines(str, line) ==
  IF str = <<>> THEN <<>>
  ELSE IF Head(str) = "\n" THEN <<line>> \o SplitLines(Tail(str), <<>>)
  ELSE SplitLines(Tail(str), Append(line, Head(str)))

\* the line of a well-formed record
LineOf(b) == formatText(OrElse(b.text, Str(<<>>)).s, OrElse(b.category, Str(SPEECH)))

\* C5: the output has one line per record; line p is the line of the
\* record at position origin[p].pos of the successful response of slice
\* origin[p].slice, and the lines are in ascending (slice, position) order.
C5_OutputOrder ==
  pc = "done" =>
    LET lines == SplitLines(output, <<>>)
    IN /\ Len(lines) = Len(origin)
       /\ \A p \in 1..Len(origin) :
            lines[p] = LineOf(Payload(calls[origin[p].call].resp).elems[origin[p].pos])
       /\ \A p, q \in 1..Len(origin) :
            p < q <=> \/ origin[p].slice < origin[q].slice
                      \/ /\ origin[p].slice = origin[q].slice
                         /\ origin[p].pos < origin[q].pos

\* C5 witness: a returned output of three different lines from two slices.
C5_Witness ==
  /\ pc = "done"
  /\ Len(origin) = 3
  /\ origin[1].slice # origin[3].slice
  /\ LET lines == SplitLines(output, <<>>)
     IN lines[1] # lines[2] /\ lines[2] # lines[3] /\ lines[1] # lines[3]

\* C6: when every credential has failed for a slice, the run still returns:
\* it does not throw, and its output is exactly the lines of the records
\* of the successful slices, in their order, with nothing of a failed slice.
C6_FailedSliceSkipped ==
  (pc \in {"done", "thrown"} /\ failed # {}) =>
    /\ pc = "done"
    /\ \A p \in 1..Len(origin) : origin[p].slice \notin failed
    /\ LET lines == SplitLines(output, <<>>)
       IN /\ Len(lines) = Len(origin)
          /\ \A p \in 1..Len(origin) :
               /\ lines[p] = LineOf(Payload(calls[origin[p].call].resp).elems[origin[p].pos])
               /\ p < Len(origin) => origin[p].slice <= origin[p + 1].slice

\* C7: no response of the service makes the run throw to its caller: a run
\* that has made a call of the service never ends thrown.
C7_NoRunFailure ==
  pc = "thrown" => calls = <<>>

\* C8: a response that decodes to a value that is not a list ends its slice
\* as a success with no record: it is the last call of the slice, the slice
\* is not reported failed, the attempt counter stays, nothing is pushed and
\* the output has no line for it.
C8_NonListIsEmptySuccess ==
  /\ \A n \in 1..Len(calls) :
       NonList(calls[n].resp) =>
         /\ IsLastCallOfSlice(n)
         /\ calls[n].slice \notin failed
         /\ BlocksOfCall(n) = {}
         /\ (calls[n].slice = i /\ pc = "while") =>
              (success /\ attempts = AttemptNo(n))
  /\ pc = "done" => Len(SplitLines(output, <<>>)) = Len(origin)

\* C8 witness: a returned run over two credentials in which the first
\* attempt of a slice was answered by a non-list value, and another slice
\* gave output.
C8_Witness ==
  /\ pc = "done"
  /\ K = 2
  /\ output # <<>>
  /\ \E n \in 1..Len(calls) : NonList(calls[n].resp) /\ AttemptNo(n) = 0

\* C9 as claimed: a response text that does not decode ends its slice as a
\* success with no record: no other credential is tried, the attempt
\* counter stays, and the slice is not reported failed.
C9_UndecodableIsSuccess ==
  \A n \in 1..Len(calls) :
    Undecodable(calls[n].resp) =>
      /\ IsLastCallOfSlice(n)
      /\ calls[n].slice \notin failed
      /\ (calls[n].slice = i /\ pc = "while") =>
           (success /\ attempts = AttemptNo(n))

\* C9 amended: a response text that does not decode is a failed attempt:
\* nothing is pushed, the attempt counter is incremented, the next
\* credential in cyclic order is tried when one is left, and when none is
\* left the slice is reported failed.
C9_UndecodableIsFailure ==
  \A n \in 1..Len(calls) :
    Undecodable(calls[n].resp) =>
      LET s == calls[n].slice
      IN /\ BlocksOfCall(n) = {}
         /\ (IsLastCallOfSlice(n) /\ s = i /\ pc = "while") =>
              (~success /\ attempts = AttemptNo(n) + 1)
         /\ (AttemptNo(n) + 1 < K /\ SliceEnded(s)) =>
              \E m \in CallsOf(s) :
                /\ AttemptNo(m) = AttemptNo(n) + 1
                /\ calls[m].keyIndex = (calls[n].keyIndex + 1) % K
         /\ (IsLastCallOfSlice(n) /\ SliceEnded(s)) =>
              (s \in failed /\ AttemptNo(n) = K - 1)

\* C9 witness: a finished dispatch in which an undecodable text was
\* followed by a successful attempt with the next credential, and another
\* undecodable text was the last attempt of a failed slice.
C9_Witness ==
  /\ pc = "format"
  /\ \E n, m \in 1..Len(calls) :
       /\ Undecodable(calls[n].resp) /\ m = n + 1
       /\ calls[m].slice = calls[n].slice /\ calls[m].slice \notin failed
       /\ BlocksOfCall(m) # {}
  /\ \E n \in 1..Len(calls) :
       /\ Undecodable(calls[n].resp) /\ IsLastCallOfSlice(n)
       /\ calls[n].slice \in failed

\* slice n was cut by a scan: more than MAX_SLICE rows remained at its start
Scanned(n) == image.height - slices[n].startY > MAX_SLICE

\* C11: an image no higher than MAX_SLICE gives the one slice {0, H} and
\* no pixel is read; whenever no more than MAX_SLICE rows remain, the
\* remainder is the last slice and no window is read for it: the windows
\* read are those of the slices with more than MAX_SLICE rows remaining.
C11_RemainderWithoutScan ==
  /\ (pc = "for" /\ image.height <= MAX_SLICE) =>
       /\ slices = <<[startY |-> 0, height |-> image.height]>>
       /\ scans = <<>>
  /\ \A n \in 1..Len(slices) :
       ~Scanned(n) =>
         /\ n = Len(slices)
         /\ slices[n].height = image.height - slices[n].startY
         /\ \A w \in 1..Len(scans) : scans[w].y < slices[n].startY
  /\ Len(scans) = Cardinality({n \in 1..Len(slices) : Scanned(n)})
  /\ \A w \in 1..Len(scans) :
       /\ Scanned(w)
       /\ scans[w] = [y |-> slices[w].startY + MIN_SLICE, h |-> MAX_SLICE - MIN_SLICE]

\* C11 witness: an image of exactly MAX_SLICE rows was sliced.
C11_Witness ==
  pc = "for" /\ image.height = MAX_SLICE /\ Len(slices) = 1

\* the calls made with the credential at index j
UsesOfKey(j) == {n \in 1..Len(calls) : calls[n].keyIndex = j}

\* every slice succeeded with its first call
AllFirstTry == Len(calls) = N /\ failed = {} /\ \A s \in 0..(N - 1) : CallsOf(s) # {}

\* C16: when every slice succeeds on its first attempt, credential j is
\* used for exactly the slices s with s mod K = j, so the numbers of calls
\* of two credentials differ by at most one.
C16_EvenFirstAttemptLoad ==
  (pc = "format" /\ AllFirstTry) =>
    /\ \A j \in 0..(K - 1) :
         {calls[n].slice : n \in UsesOfKey(j)} = {s \in 0..(N - 1) : s % K = j}
    /\ \A j1, j2 \in 0..(K - 1) :
         Cardinality(UsesOfKey(j1)) - Cardinality(UsesOfKey(j2)) <= 1

\* C16 witness: three slices over two credentials, all first attempts
\* successful.
C16_Witness ==
  pc = "format" /\ AllFirstTry /\ N = 3 /\ K = 2

\* the offsets of the scanned rows within the window
ScannedOffsets == {y \in 0..(MAX_SLICE - MIN_SLICE - 1) : y % RowStride = 0}

\* the sum of min(distWhite, distBlack) over the sampled pixels of a row
RECURSIVE RowEnergyAt(_, _, _)
RowEnergyAt(img, row, x) ==
  IF x >= img.width THEN 0
  ELSE LET px == Pixel(img, x, row)
           dw == (255 - px[1]) + (255 - px[2]) + (255 - px[3])
           db == px[1] + px[2] + px[3]
       IN (IF dw < db THEN dw ELSE db) + RowEnergyAt(img, row, x + PixelStride)

\* the penalized score of window offset y for a slice starting at startY:
\* the row energy over width / 10, plus (M - m - y) * 0.2, in doubles
PenalizedScore(img, startY, y) ==
  DAdd(DDiv(DFromInt(RowEnergyAt(img, startY + MIN_SLICE + y, 0)),
            DDiv(DFromInt(img.width), DTen)),
       DMul(DFromInt((MAX_SLICE - MIN_SLICE) - y), DFifth))

\* the rows of the window of a slice starting at startY all have the
\* energy of its first row
FlatWindow(img, startY) ==
  \A y \in ScannedOffsets :
    RowEnergyAt(img, startY + MIN_SLICE + y, 0)
      = RowEnergyAt(img, startY + MIN_SLICE, 0)

\* C17: a scanned cut is MIN_SLICE + y for the scanned offset y of minimal
\* penalized score, the smallest such offset when several are minimal (so
\* never the window end MAX_SLICE); when all scanned rows have the same
\* energy it is the last scanned row.  Scores are the doubles the code
\* computes.  Stated of each slice when it has just been appended.
C17_MinimalPenalizedScore ==
  (pc = "slice" /\ Len(slices) > 0 /\ Scanned(Len(slices))) =>
    LET sl == slices[Len(slices)]
        yb == sl.height - MIN_SLICE
        sb == PenalizedScore(image, sl.startY, yb)
    IN /\ yb \in ScannedOffsets
       /\ \A y \in ScannedOffsets :
            LET sy == PenalizedScore(image, sl.startY, y)
            IN IF y < yb THEN DLess(sb, sy) ELSE ~DLess(sy, sb)
       /\ FlatWindow(image, sl.startY) => \A y \in ScannedOffsets : y <= yb

\* C17 witness: a scanned cut whose score is shared by a later scanned row.
C17_Witness ==
  /\ pc = "slice"
  /\ Len(slices) > 0
  /\ Scanned(Len(slices))
  /\ image.bg = Ivory
  /\ LET sl == slices[Len(slices)]
     IN \E y \in {sl.height - MIN_SLICE + 100} :
          /\ y \in ScannedOffsets
          /\ PenalizedScore(image, sl.startY, y)
               = PenalizedScore(image, sl.startY, sl.height - MIN_SLICE)

\* ceil(a / b)
CeilDiv(a, b) == (a + b - 1) \div b

\* an iteration of the slicing loop emits a slice of positive height and
\* moves currentY up, not beyond the image; the loop exits at the end of
\* the image
SlicingStepProgress ==
  /\ (pc = "slice" /\ pc' = "slice") =>
       /\ Len(slices') = Len(slices) + 1
       /\ slices'[Len(slices')].height > 0
       /\ currentY' > currentY
       /\ currentY' <= image.height
  /\ (pc = "slice" /\ pc' # "slice") => currentY = image.height

\* the slicing loop can take a step: it exits, or its body runs with a cut
\* of positive height
SlicingNotBlocked ==
  pc = "slice" =>
    \/ ENABLED SliceExit
    \/ /\ currentY < image.height
       /\ findBestCutPosition(image, currentY, MAX_SLICE, MIN_SLICE) \in 1..MAX_SLICE

\* C18: the slicing loop terminates: every iteration emits a slice of
\* positive height and increases currentY, which never exceeds H and is H
\* when the loop exits; the loop never blocks; there are at most
\* ceil(H / MIN_SLICE) slices.
C18_SlicingTerminates ==
  /\ [][SlicingStepProgress]_vars
  /\ [](/\ currentY <= image.height
        /\ SlicingNotBlocked
        /\ Len(slices) <= CeilDiv(image.height, MIN_SLICE)
        /\ \A n \in 1..Len(slices) : slices[n].height > 0)

\* C18 witness: a finished slicing of four slices.
C18_Witness ==
  pc = "for" /\ Len(slices) >= 4 /\ currentY = image.height

\* the call did not throw in the try block
CallSucceeded(n) == calls[n].resp.kind # "error" /\ ~Undecodable(calls[n].resp)

\* C19: a failed slice had exactly K calls, all failed, with the K
\* different credentials in cyclic order from index s mod K; a successful
\* call is the last call of its slice, which is not reported failed.
C19_FailedAfterWholePool ==
  /\ \A s \in failed :
       /\ Cardinality(CallsOf(s)) = K
       /\ {calls[n].keyIndex : n \in CallsOf(s)} = 0..(K - 1)
       /\ \A n \in CallsOf(s) :
            /\ ~CallSucceeded(n)
            /\ calls[n].keyIndex = (s + AttemptNo(n)) % K
  /\ \A n \in 1..Len(calls) :
       CallSucceeded(n) => (IsLastCallOfSlice(n) /\ calls[n].slice \notin failed)

\* C19 witness: over two credentials slice 1 failed with indexes 1 then 0,
\* and slice 0 succeeded on its second attempt.
C19_Witness ==
  /\ K = 2
  /\ 1 \in failed
  /\ 0 \notin failed
  /\ Cardinality(CallsOf(0)) = 2
  /\ pc = "format"

\* the text of a record as the formatting pass takes it: b.text || ""
TextOf(b) == IF Truthy(b.text) THEN b.text.s ELSE <<>>

\* the fixed prefix of each of the nine categories the service is asked for
ClaimedPrefix(c) ==
  CASE c = <<"speech">>     -> <<"<ldquo><rdquo>:", " ">>
    [] c = <<"thought">>    -> <<"():", " ">>
    [] c = <<"box">>        -> <<"[]:", " ">>
    [] c = <<"narration">>  -> <<"OT:", " ">>
    [] c = <<"small_text">> -> <<"ST:", " ">>
    [] c = <<"sfx">>        -> <<"SFX:", " ">>
    [] c = <<"system">>     -> <<"{}:", " ">>
    [] c = <<"scream">>     -> <<"::", " ">>
    [] c = <<"linked">>     -> <<"//:", " ">>

\* C12: the line of a record whose category is one of the nine names the
\* service is asked for is that category's prefix followed by the trimmed
\* text; the line of a record with a (non-empty) category string that is
\* none of these names in any spelling is the bare trimmed text.
C12_PromptCategoriesPrefixed ==
  pc = "done" =>
    LET b == allBlocks[1]
    IN (b.category.t = "str" /\ b.category.s # <<>>) =>
         /\ b.category.s \in PromptCategories =>
              output = ClaimedPrefix(b.category.s) \o Trim(TextOf(b)) \o <<"\n">>
         /\ b.category.s \notin PromptCategories \cup EnumCategories =>
              output = Trim(TextOf(b)) \o <<"\n">>

\* C13 as claimed: a record whose category is absent, or a string that is
\* none of the nine recognized values, gets the line of a speech record
\* with the same text.
C13_UnknownOrAbsentIsSpeech ==
  pc = "done" =>
    LET b == allBlocks[1]
    IN (\/ b.category.t = "undef"
        \/ /\ b.category.t = "str"
           /\ b.category.s \notin PromptCategories \cup EnumCategories)
       => output = <<"<ldquo><rdquo>:", " ">> \o Trim(TextOf(b)) \o <<"\n">>

\* C13 amended: a record whose category is absent or falsy (undefined,
\* null, the empty string, 0) gets the line of a speech record with the
\* same text; a record whose category is a non-empty string outside the
\* enum values gets the bare trimmed text, with no prefix.
C13_AbsentIsSpeechUnknownIsBare ==
  pc = "done" =>
    LET b == allBlocks[1]
    IN /\ ~Truthy(b.category) =>
            output = <<"<ldquo><rdquo>:", " ">> \o Trim(TextOf(b)) \o <<"\n">>
       /\ (b.category.t = "str" /\ b.category.s # <<>>
             /\ b.category.s \notin EnumCategories) =>
            output = Trim(TextOf(b)) \o <<"\n">>

\* C13 witness: a formatted record without category whose text had
\* whitespace to trim on both sides.
C13_Witness ==
  /\ pc = "done"
  /\ allBlocks[1].category = Undef
  /\ allBlocks[1].text = Str(<<" ", "a", " ">>)
  /\ output = <<"<ldquo><rdquo>:", " ", "a", "\n">>

\* the configured key list holds no key: unset, empty, or only commas and
\* blanks
NoKeyConfigured ==
  \/ ~Truthy(env.GEMINI_API_KEYS)
  \/ \A n \in 1..Len(env.GEMINI_API_KEYS.s) :
        env.GEMINI_API_KEYS.s[n] \in {",", " "}

\* nothing of a command or of a run has happened
NothingRun ==
  /\ pc = "idle"
  /\ hpc = "idle"
  /\ other = Null
  /\ interaction = Null
  /\ replies = <<>>
  /\ slices = <<>>
  /\ scans = <<>>
  /\ calls = <<>>

StartupAborts == (botpc = "start" /\ NoKeyConfigured) => botpc' = "exited"

\* C14: with no key configured the program exits at startup, before any
\* command is accepted, any image sliced and any extraction call made; and
\* every run has a pool of at least one key, each key non-blank.
C14_NoRunWithoutKeys ==
  /\ [][StartupAborts]_vars
  /\ [](/\ NoKeyConfigured => (botpc \in {"start", "exited"} /\ NothingRun)
        /\ botpc = "exited" => NothingRun
        /\ pc # "idle" =>
             /\ Len(apiKeys) >= 1
             /\ \A n \in 1..Len(apiKeys) :
                  apiKeys[n] # <<>> /\ Trim(apiKeys[n]) = apiKeys[n])

\* C14 witness: the program has exited on a key list of a blank and a comma,
\* token and client id being set.
C14_Witness ==
  /\ botpc = "exited"
  /\ Truthy(env.TOKEN)
  /\ Truthy(env.CLIENT_ID)
  /\ env.GEMINI_API_KEYS = Str(<<" ", ",">>)
  /\ GEMINI_KEYS = <<>>

FinalReplies ==
  {NoTextFound, SystemError} \cup {AnalysisComplete(output)}

\* the command being handled was accepted: it is a chat command named ocr
\* with an image attachment
Accepted ==
  /\ interaction # Null
  /\ interaction.chat
  /\ interaction.commandName = "ocr"
  /\ ~InvalidAttachment(interaction.attachment)

\* the promise of the executing handler has settled
HandlerEnded == hpc \in {"returned", "rejected"}

\* C20: once the handler of a command has ended, (a) when every slice has
\* failed on every key the run has returned the empty string and the reply
\* is 'No text found', not 'System Error'; (b) a failed slice never makes
\* the run throw: it throws only when the image could not be loaded or the
\* formatting pass threw; (c) an accepted command has been deferred and has
\* got exactly one of the three final replies; (d) a command whose
\* attachment is missing or not an image has got 'Invalid file' and no run.
C20_SliceFailureIsNotRunFailure ==
  /\ (HandlerEnded /\ pc = "done" /\ N >= 1 /\ failed = 0..(N - 1)) =>
       (output = <<>> /\ replies = <<Deferred, NoTextFound>>)
  /\ (HandlerEnded /\ pc = "thrown") =>
       (calls = <<>> \/ FormatThrows(allBlocks))
  /\ (HandlerEnded /\ Accepted) =>
       /\ Len(replies) = 2
       /\ replies[1] = Deferred
       /\ replies[2] \in FinalReplies
  /\ (HandlerEnded /\ ~Accepted) =>
       /\ pc = "idle" /\ slices = <<>> /\ calls = <<>>
       /\ replies = IF interaction.chat /\ interaction.commandName = "ocr"
                      THEN <<InvalidFile>> ELSE <<>>

\* the slices of an image sliced by an invocation running alone
RECURSIVE SoloSlices(_, _, _)
SoloSlices(img, y, acc) ==
  IF y < img.height
    THEN LET h == findBestCutPosition(img, y, MAX_SLICE, MIN_SLICE)
         IN SoloSlices(img, y + h, Append(acc, [startY |-> y, height |-> h]))
    ELSE acc

SoloSlicesOf == [img \in ConcImages |-> SoloSlices(img, 0, <<>>)]

SoloStart ==
  [i |-> 0, attempts |-> 0, allBlocks |-> <<>>, calls |-> <<>>, failed |-> {}]

\* the dispatch of an invocation running alone with key pool keys, after it
\* has received the responses resps in this order
RECURSIVE SoloDispatch(_, _, _)
SoloDispatch(resps, keys, st) ==
  IF resps = <<>> THEN st
  ELSE LET keyIndex == KeyIndex(st.i, st.attempts, Len(keys))
           r    == TryBody(Head(resps), st.allBlocks)
           att  == IF r.threw THEN st.attempts + 1 ELSE st.attempts
           more == LoopGuard(~r.threw, att, Len(keys))
       IN SoloDispatch(Tail(resps), keys,
            [i         |-> IF more THEN st.i ELSE st.i + 1,
             attempts  |-> IF more THEN att ELSE 0,
             allBlocks |-> r.allBlocks,
             calls     |-> Append(st.calls,
                             [slice |-> st.i, keyIndex |-> keyIndex,
                              key |-> keys[keyIndex + 1],
                              resp |-> Head(resps)]),
             failed    |-> IF ~more /\ r.threw
                             THEN st.failed \cup {st.i} ELSE st.failed])

\* the text chunks that only the responses to the other invocation carry
ForeignChunks(run) == IF run = 1 THEN {"b", "c", "SFX:"} ELSE {"a"}

\* the locals x of invocation run are those of an invocation running alone
\* on the same image with the same responses
AsIfAlone(x, run) ==
  LET resps == [n \in 1..Len(x.calls) |-> x.calls[n].resp]
      solo  == SoloDispatch(resps, apiKeys, SoloStart)
  IN /\ x.pc \notin {"load", "slice", "thrown"} =>
          x.slices = SoloSlicesOf[x.image]
     /\ x.pc \in {"load", "slice"} => x.calls = <<>> /\ x.allBlocks = <<>>
     /\ x.calls = solo.calls
     /\ x.allBlocks = solo.allBlocks
     /\ Len(x.origin) = Len(x.allBlocks)
     /\ \A n \in 1..Len(x.calls) : x.calls[n].resp \in ConcResponses(run)
     /\ x.pc = "while" /\ LoopGuard(x.success, x.attempts, Len(apiKeys)) =>
          x.i = solo.i /\ x.attempts = solo.attempts
     /\ x.pc \in {"for", "format", "done"} =>
          x.i = solo.i /\ x.failed = solo.failed
     /\ x.pc \in {"format", "done"} => x.i = Len(x.slices)
     /\ x.pc = "done" =>
          /\ x.output = FormatAll(solo.allBlocks, <<>>)
          /\ \A n \in 1..Len(x.output) : x.output[n] \notin ForeignChunks(run)

PoolUntouched == apiKeys' = apiKeys

\* C15: of two invocations interleaved at their awaits, each has at every
\* moment the slices, calls, counters, collected records and output of an
\* invocation running alone with the same responses; no output holds a
\* record returned to the other invocation; the key pool never changes.
C15_RunsIsolated ==
  /\ [](AsIfAlone(Locals, cur) /\ AsIfAlone(other, 3 - cur))
  /\ [](apiKeys = KeyPool(Len(apiKeys)))
  /\ [][PoolUntouched]_vars

\* C15 witness: both invocations are in the middle of their dispatch, each
\* suspended or about to be at a call for its second slice, each having
\* made a failed and a successful call and collected its own records.
C15_Witness ==
  /\ pc = "while"
  /\ other.pc = "while"
  /\ i = 1
  /\ other.i = 1
  /\ Len(calls) >= 2
  /\ Len(other.calls) >= 2
  /\ Len(allBlocks) >= 1
  /\ Len(other.allBlocks) >= 1
  /\ allBlocks # other.allBlocks

====
